---- MODULE Spec2Model ----
(***************************************************************************)
(* A model of characteristic.py: the class decorators with_cmp, with_repr, *)
(* with_init and attributes, the methods they attach to a class, and the   *)
(* instantiation of a class whose __init__ is the generated init.          *)
(*                                                                         *)
(* Python values are modelled by integers: 0..MaxVal are the int objects   *)
(* the callers use, BuiltinObj is the builtin function object that the     *)
(* name "id" resolves to.  A comparison result is one of the strings       *)
(* "True", "False", "NotImplemented".                                      *)
(***************************************************************************)
EXTENDS Integers, Sequences, FiniteSets, TLC

VARIABLES
    attrs,      \* the *attrs* argument of the decorators: a sequence of names
    defaults,   \* the *defaults* argument: a function from names to values
    cl,         \* the decorated class Type: its __init__, __original_init__
                \* and whether the comparison methods / __repr__ are attached
    inst,       \* two live instances x and y: their class and their __dict__
    last,       \* the last operation and the exception it raised, if any
    call        \* the last instantiation: keyword arguments, the instance's
                \* __dict__, and the events of the run in program order

vars == <<attrs, defaults, cl, inst, last, call>>

----------------------------------------------------------------------------
(* Bounds of the model *)

MaxAttrs == 2       \* longest attribute list
MaxVal == 1         \* attribute values and arguments are 0..MaxVal
MaxDepth == 3       \* the interpreter's recursion limit, in frames

(* The builtin function object that the global name "id" evaluates to. *)
BuiltinObj == -1

CmpNames == {"a", "b", "attr"}
Names == CmpNames \cup {"id"}
Vals == 0..MaxVal
Classes == {"Type", "Sub", "Other"}   \* Sub is a subclass of Type, Other is unrelated

EmptyDict == [n \in {} |-> 0]

Range(s) == {s[i] : i \in DOMAIN s}

(* Duplicate-free sequences over S of length at most MaxAttrs. *)
AttrLists(S) ==
    UNION {{s \in [1..n -> S] : \A i, j \in 1..n : i # j => s[i] # s[j]} : n \in 0..MaxAttrs}

(* A __dict__ update: d[a] = v. *)
SetItem(d, a, v) == (a :> v) @@ d

NoErr == [type |-> "none", name |-> ""]
Err(t, n) == [type |-> t, name |-> n]

PyBool(b) == IF b THEN "True" ELSE "False"

----------------------------------------------------------------------------
(* with_cmp *)

(* issubclass(c, d) for the three classes of the model. *)
issubclass(c, d) == c = d \/ (c = "Sub" /\ d = "Type")

(* A comparison that skips the type test treats every operand as an       *)
(* instance.                                                               *)
IsInstanceAlways(other, self) == TRUE

(* isinstance(other, self.__class__) *)
isinstance(other, self) == issubclass(other.cls, self.cls)

(* The values read in the reverse of the order of attrs. *)
AttrsToTupleReversed(obj) == [i \in 1..Len(attrs) |-> obj.d[attrs[Len(attrs) + 1 - i]]]

(* attrs_to_tuple(obj): tuple(getattr(obj, a) for a in attrs) *)
attrs_to_tuple(obj) == [i \in 1..Len(attrs) |-> obj.d[attrs[i]]]

Min(a, b) == IF a < b THEN a ELSE b

(* The comparison of two ints under one of the six operators. *)
IntCompare(a, b, op) ==
    CASE op = "eq" -> a = b
      [] op = "ne" -> a # b
      [] op = "lt" -> a < b
      [] op = "le" -> a <= b
      [] op = "gt" -> a > b
      [] op = "ge" -> a >= b

(* Python's tuple comparison: the first index where the items differ      *)
(* decides; when there is none, the lengths are compared.                  *)
TupleCompare(v, w, op) ==
    LET D == {i \in 1..Min(Len(v), Len(w)) : v[i] # w[i]}
    IN  IF D = {}
        THEN IntCompare(Len(v), Len(w), op)
        ELSE LET i == CHOOSE k \in D : \A m \in D : k <= m
             IN  IntCompare(v[i], w[i], op)

eq(self, other) ==
    IF isinstance(other, self)
    THEN PyBool(TupleCompare(attrs_to_tuple(self), attrs_to_tuple(other), "eq"))
    ELSE "NotImplemented"

ne(self, other) ==
    LET result == eq(self, other)
    IN  IF result = "NotImplemented"
        THEN "NotImplemented"
        ELSE PyBool(result # "True")

lt(self, other) ==
    IF isinstance(other, self)
    THEN PyBool(TupleCompare(attrs_to_tuple(self), attrs_to_tuple(other), "lt"))
    ELSE "NotImplemented"

le(self, other) ==
    IF isinstance(other, self)
    THEN PyBool(TupleCompare(attrs_to_tuple(self), attrs_to_tuple(other), "le"))
    ELSE "NotImplemented"

gt(self, other) ==
    IF isinstance(other, self)
    THEN PyBool(TupleCompare(attrs_to_tuple(self), attrs_to_tuple(other), "gt"))
    ELSE "NotImplemented"

ge(self, other) ==
    IF isinstance(other, self)
    THEN PyBool(TupleCompare(attrs_to_tuple(self), attrs_to_tuple(other), "ge"))
    ELSE "NotImplemented"

(* hash() of a tuple of ints: an order-sensitive combiner of the items'    *)
(* hashes (hash(n) = n for the small non-negative ints used here), kept    *)
(* to 13 bits.                                                             *)
RECURSIVE TupleHashFrom(_, _, _)
TupleHashFrom(t, i, acc) ==
    IF i > Len(t)
    THEN acc
    ELSE TupleHashFrom(t, i + 1, (acc * 579 + t[i] + 97531) % 8192)

TupleHash(t) == TupleHashFrom(t, 1, 5752)

(* object.__hash__: derived from the object's identity. *)
IdentityHash(self) == IF self.id = "x" THEN 1 ELSE 2

(* hash_(self): hash(attrs_to_tuple(self)) *)
hash_(self) == TupleHash(attrs_to_tuple(self))

(* The class whose method table a lookup on an instance of c reaches:      *)
(* Sub inherits from Type, Other has nothing attached.                     *)
HasCmp(c) == cl.cmp /\ issubclass(c, "Type")
HasRepr(c) == cl.repr /\ issubclass(c, "Type")

----------------------------------------------------------------------------
(* with_repr *)

(* ", ".join(a + "=" + repr(getattr(self, a)) for a in attrs), from the    *)
(* i-th attribute on.                                                      *)
RECURSIVE JoinFrom(_, _, _)
JoinFrom(self, i, sep) ==
    IF i > Len(attrs)
    THEN ""
    ELSE (IF i > 1 THEN sep ELSE "")
         \o attrs[i] \o "=" \o ToString(self.d[attrs[i]])
         \o JoinFrom(self, i + 1, sep)

(* The same format joined by "," alone. *)
ReprNoSpace(self) == "<" \o self.cls \o "(" \o JoinFrom(self, 1, ",") \o ")>"

(* repr_(self): "<{0}({1})>".format(self.__class__.__name__, ...) *)
repr_(self) == "<" \o self.cls \o "(" \o JoinFrom(self, 1, ", ") \o ")>"

----------------------------------------------------------------------------
(* with_init: the generated source *)

HasDefault(i) == attrs[i] \in DOMAIN defaults

(* The parameter list of the generated init after self: "{attr}=defaults   *)
(* [{attr}]" names the parameter after the attribute, the other branch is  *)
(* the literal string "attr".                                              *)
InitParams == [i \in 1..Len(attrs) |-> IF HasDefault(i) THEN attrs[i] ELSE "attr"]

(* The names the namespace of exec() resolves: ns holds "defaults", the    *)
(* builtins hold "id"; no attribute name of the model is "defaults".       *)
Builtins == ("id" :> BuiltinObj)

(* exec(source, ns, locs): compiling the def fails on a repeated parameter *)
(* name and on a parameter without default after one with a default; then  *)
(* the default expressions defaults[<name>] are evaluated left to right,    *)
(* each <name> being a NAME looked up in locs, ns and the builtins.         *)
ExecSource ==
    LET n == Len(attrs)
        dup == \E i, j \in 1..n : i < j /\ InitParams[i] = InitParams[j]
        order == \E i, j \in 1..n : i < j /\ HasDefault(i) /\ ~HasDefault(j)
        D == {i \in 1..n : HasDefault(i)}
        first == CHOOSE i \in D : \A j \in D : i <= j
    IN  IF dup \/ order THEN Err("SyntaxError", "attr")
        ELSE IF D = {} THEN NoErr
        ELSE IF attrs[first] \in DOMAIN Builtins THEN Err("KeyError", attrs[first])
        ELSE Err("NameError", attrs[first])

(* Binding the arguments of a call to the parameters of the generated      *)
(* init.  A parameter with a default is bound to the object stored in      *)
(* defaults, evaluated once when the def was executed; stored is the set   *)
(* of the parameters bound to that very object.                            *)
Bind(posargs, kw) ==
    LET P == InitParams
        n == Len(P)
        unexpected == DOMAIN kw \ Range(P)
        given(i) == i <= Len(posargs) \/ P[i] \in DOMAIN kw
        missing == {i \in 1..n : ~given(i) /\ ~HasDefault(i)}
        value(i) == IF i <= Len(posargs) THEN posargs[i]
                    ELSE IF P[i] \in DOMAIN kw THEN kw[P[i]]
                    ELSE defaults[P[i]]
    IN  IF unexpected # {}
        THEN [err |-> Err("TypeError:unexpected keyword", CHOOSE u \in unexpected : TRUE),
              locals |-> EmptyDict, stored |-> {}]
        ELSE IF Len(posargs) > n
        THEN [err |-> Err("TypeError:too many positional", ""),
              locals |-> EmptyDict, stored |-> {}]
        ELSE IF \E i \in 1..Min(n, Len(posargs)) : P[i] \in DOMAIN kw
        THEN [err |-> Err("TypeError:multiple values", ""),
              locals |-> EmptyDict, stored |-> {}]
        ELSE IF missing # {}
        THEN [err |-> Err("TypeError:missing argument",
                          P[CHOOSE i \in missing : \A j \in missing : i <= j]),
              locals |-> EmptyDict, stored |-> {}]
        ELSE [err |-> NoErr,
              locals |-> [p \in Range(P) |-> value(CHOOSE i \in 1..n : P[i] = p)],
              stored |-> {P[i] : i \in {j \in 1..n : ~given(j)}}]

(* Evaluating the NAME n in the body of init: its locals, then the globals *)
(* ns (only "defaults"), then the builtins.                                *)
CanResolve(n, locals) == n \in DOMAIN locals \/ n \in DOMAIN Builtins
LookupName(n, locals) == IF n \in DOMAIN locals THEN locals[n] ELSE Builtins[n]

AssignEvent(a, v) == [ev |-> "assign", name |-> a, args |-> <<v>>]
BaseEvent(args) == [ev |-> "base", name |-> "__original_init__", args |-> args]

(* The user-written initializer of Type: def __init__(self, *args) with    *)
(* self.derived = args.                                                     *)
UserInit(obj, trace, args) ==
    [obj |-> [obj EXCEPT !.derived = args, !.ran = obj.ran + 1],
     trace |-> Append(trace, BaseEvent(args)),
     err |-> NoErr]

(* object.__init__ of a class whose __init__ is overridden: excess         *)
(* arguments are a TypeError.                                              *)
ObjectInit(obj, trace, args) ==
    [obj |-> obj, trace |-> trace,
     err |-> IF args = <<>> THEN NoErr ELSE Err("TypeError:object.__init__", "")]

(* The assignments "self.{attr} = {attr}" from the i-th on. *)
RECURSIVE Assignments(_, _, _, _)
Assignments(obj, trace, locals, i) ==
    IF i > Len(attrs)
    THEN [obj |-> obj, trace |-> trace, err |-> NoErr]
    ELSE IF ~CanResolve(attrs[i], locals)
    THEN [obj |-> obj, trace |-> trace, err |-> Err("NameError", attrs[i])]
    ELSE LET v == LookupName(attrs[i], locals)
         IN  Assignments([obj EXCEPT !.d = SetItem(obj.d, attrs[i], v)],
                         Append(trace, AssignEvent(attrs[i], v)), locals, i + 1)

(* One call of the generated init: bind, assign, then                      *)
(* self.__original_init__({args}), which is looked up on the class at the  *)
(* time of the call.  A frame beyond the recursion limit is a              *)
(* RecursionError.                                                         *)
RECURSIVE GenInit(_, _, _, _, _)
GenInit(obj, trace, posargs, kw, depth) ==
    IF depth > MaxDepth
    THEN [obj |-> obj, trace |-> trace, err |-> Err("RecursionError", "")]
    ELSE LET b == Bind(posargs, kw)
         IN  IF b.err # NoErr
             THEN [obj |-> obj, trace |-> trace, err |-> b.err]
             ELSE LET a == Assignments(obj, trace, b.locals, 1)
                      args == [i \in 1..Len(attrs) |-> LookupName(attrs[i], b.locals)]
                  IN  IF a.err # NoErr THEN a
                      ELSE CASE cl.original_init = "user" -> UserInit(a.obj, a.trace, args)
                             [] cl.original_init = "object" -> ObjectInit(a.obj, a.trace, args)
                             [] cl.original_init = "gen" ->
                                    GenInit(a.obj, a.trace, args, EmptyDict, depth + 1)

----------------------------------------------------------------------------
(* The operations *)

NewObject == [d |-> EmptyDict, derived |-> <<>>, ran |-> 0]
NoCall == [made |-> FALSE, kw |-> EmptyDict, obj |-> NewObject, trace |-> <<>>, stored |-> {}]
Last(op, err, ci) == [op |-> op, err |-> err, create_init |-> ci]

(* with_cmp(attrs)(cl) *)
WithCmp ==
    /\ cl' = [cl EXCEPT !.cmp = TRUE]
    /\ last' = Last("with_cmp", NoErr, FALSE)
    /\ UNCHANGED <<attrs, defaults, inst, call>>

(* with_repr(attrs)(cl) *)
WithRepr ==
    /\ cl' = [cl EXCEPT !.repr = TRUE]
    /\ last' = Last("with_repr", NoErr, FALSE)
    /\ UNCHANGED <<attrs, defaults, inst, call>>

(* _make_wrap_init(init)(cl) *)
WrapInit(c) == [c EXCEPT !.original_init = c.init, !.init = "gen"]

(* with_init(attrs, defaults)(cl): exec() raises before the class is       *)
(* touched.                                                                *)
WithInit ==
    /\ cl' = IF ExecSource = NoErr THEN WrapInit(cl) ELSE cl
    /\ last' = Last("with_init", ExecSource, TRUE)
    /\ UNCHANGED <<attrs, defaults, inst, call>>

(* attributes(attrs, defaults, create_init)(cl): with_repr and with_cmp    *)
(* have been applied to the class when with_init raises.                   *)
Attributes(create_init) ==
    /\ LET c == [cl EXCEPT !.cmp = TRUE, !.repr = TRUE]
       IN  cl' = IF create_init /\ ExecSource = NoErr THEN WrapInit(c) ELSE c
    /\ last' = Last("attributes", IF create_init THEN ExecSource ELSE NoErr, create_init)
    /\ UNCHANGED <<attrs, defaults, inst, call>>

(* The keyword arguments a caller may pass: values for any of the          *)
(* attribute names and for the name "attr".                                *)
KwArgs == UNION {[S -> Vals] : S \in SUBSET (Range(attrs) \cup {"attr"})}

(* Instantiating Type with the keyword arguments kw, on a class whose       *)
(* __init__ is the generated init.                                          *)
Call(kw) ==
    /\ cl.init = "gen"
    /\ LET r == GenInit(NewObject, <<>>, <<>>, kw, 1)
       IN  /\ call' = [made |-> TRUE, kw |-> kw, obj |-> r.obj, trace |-> r.trace,
                        stored |-> Bind(<<>>, kw).stored]
           /\ last' = Last("call", r.err, FALSE)
    /\ UNCHANGED <<attrs, defaults, cl, inst>>

(* setattr(inst[o], a, v) on one of the two live instances. *)
SetAttr(o, a, v) ==
    /\ inst' = [inst EXCEPT ![o].d = SetItem(inst[o].d, a, v)]
    /\ last' = Last("setattr", NoErr, FALSE)
    /\ UNCHANGED <<attrs, defaults, cl, call>>

----------------------------------------------------------------------------
(* Specifications *)

Zeros == [a \in Range(attrs) |-> 0]
PlainClass(i) == [init |-> i, original_init |-> "absent", cmp |-> FALSE, repr |-> FALSE]
Instances(ycls) ==
    [o \in {"x", "y"} |->
        [id |-> o, cls |-> IF o = "x" THEN "Type" ELSE ycls, d |-> Zeros]]

(* Construction: a class with or without a user-written __init__, any      *)
(* attribute list and any defaults whose keys are among the attributes.    *)
Init ==
    /\ attrs \in AttrLists(Names)
    /\ defaults \in UNION {[S -> {0}] : S \in SUBSET Range(attrs)}
    /\ cl \in {PlainClass("user"), PlainClass("object")}
    /\ inst = Instances("Type")
    /\ last = Last("none", NoErr, FALSE)
    /\ call = NoCall

Next ==
    \/ WithInit
    \/ \E ci \in BOOLEAN : Attributes(ci)
    \/ \E kw \in KwArgs : Call(kw)

Spec == Init /\ [][Next]_vars

(* Comparison, hashing and repr: two instances whose attributes were set   *)
(* to 0 by their initializer; y is of Type, of its subclass or unrelated.  *)
InitCmp ==
    /\ attrs \in AttrLists(CmpNames)
    /\ defaults = EmptyDict
    /\ cl = PlainClass("user")
    /\ inst \in {Instances(c) : c \in Classes}
    /\ last = Last("none", NoErr, FALSE)
    /\ call = NoCall

NextCmp ==
    \/ WithCmp
    \/ WithRepr
    \/ \E o \in {"x", "y"}, a \in Range(attrs), v \in Vals : SetAttr(o, a, v)

SpecCmp == InitCmp /\ [][NextCmp]_vars

----------------------------------------------------------------------------
(* Properties of the comparison methods, checked under SpecCmp *)

Objs == {"x", "y"}
ValueAt(o, i) == inst[o].d[attrs[i]]

(* The lexicographic order on the instances' current attribute values,     *)
(* stated position by position.                                            *)
LexEq(o, p) == \A i \in 1..Len(attrs) : ValueAt(o, i) = ValueAt(p, i)
LexLess(o, p) ==
    \E i \in 1..Len(attrs) :
        /\ ValueAt(o, i) < ValueAt(p, i)
        /\ \A j \in 1..(i - 1) : ValueAt(o, j) = ValueAt(p, j)

(* C1: for two instances of the same class carrying the comparison         *)
(* methods, eq, ne, lt, le, gt and ge return what ==, !=, <, <=, >, >=     *)
(* give on the tuples of the CURRENT attribute values in the order of      *)
(* attrs: the first unequal position decides, all equal means eq, le, ge.  *)
C1_CompareCurrentTuples ==
    \A o, p \in Objs :
        (HasCmp(inst[o].cls) /\ inst[o].cls = inst[p].cls) =>
            /\ eq(inst[o], inst[p]) = PyBool(LexEq(o, p))
            /\ ne(inst[o], inst[p]) = PyBool(~LexEq(o, p))
            /\ lt(inst[o], inst[p]) = PyBool(LexLess(o, p))
            /\ le(inst[o], inst[p]) = PyBool(LexLess(o, p) \/ LexEq(o, p))
            /\ gt(inst[o], inst[p]) = PyBool(LexLess(p, o))
            /\ ge(inst[o], inst[p]) = PyBool(LexLess(p, o) \/ LexEq(o, p))

(* Two instances of Type, both re-assigned since their construction, equal *)
(* in the first attribute and ordered by the second.                       *)
C1_Witness ==
    /\ cl.cmp /\ inst["y"].cls = "Type" /\ Len(attrs) = 2
    /\ ValueAt("x", 1) = 1 /\ ValueAt("y", 1) = 1
    /\ ValueAt("x", 2) = 0 /\ ValueAt("y", 2) = 1
    /\ lt(inst["x"], inst["y"]) = "True" /\ ge(inst["x"], inst["y"]) = "False"

AllSix(self, other) ==
    {eq(self, other), ne(self, other), lt(self, other),
     le(self, other), gt(self, other), ge(self, other)}

(* C2 as stated: whenever the other operand's class is not exactly self's  *)
(* class, a subclass of it included, each of the six operations returns    *)
(* NotImplemented.                                                         *)
C2_ExactTypeOnly ==
    \A o, p \in Objs :
        (HasCmp(inst[o].cls) /\ inst[p].cls # inst[o].cls) =>
            AllSix(inst[o], inst[p]) = {"NotImplemented"}

(* C2 amended: each of the six operations returns NotImplemented whenever  *)
(* the other operand is not an instance of self's class (its class is      *)
(* neither self's class nor a subclass of it); an instance of a subclass   *)
(* of self's class is compared by its attribute values like an instance of *)
(* self's class; ne returns NotImplemented exactly when eq does.           *)
C2_NotInstanceUnsupported ==
    \A o, p \in Objs :
        HasCmp(inst[o].cls) =>
            /\ ~issubclass(inst[p].cls, inst[o].cls) =>
                   AllSix(inst[o], inst[p]) = {"NotImplemented"}
            /\ issubclass(inst[p].cls, inst[o].cls) =>
                   /\ AllSix(inst[o], inst[p]) \subseteq {"True", "False"}
                   /\ eq(inst[o], inst[p]) = PyBool(LexEq(o, p))
            /\ (ne(inst[o], inst[p]) = "NotImplemented")
                   <=> (eq(inst[o], inst[p]) = "NotImplemented")

(* An instance of Type is compared with an instance of the unrelated class *)
(* that holds the same attribute values.                                   *)
C2_Witness ==
    /\ cl.cmp /\ inst["y"].cls = "Other" /\ Len(attrs) >= 1
    /\ LexEq("x", "y") /\ ValueAt("x", 1) = 1
    /\ eq(inst["x"], inst["y"]) = "NotImplemented"
    /\ ne(inst["x"], inst["y"]) = "NotImplemented"

(* C3: whenever eq(x, y) returns True, hash_(x) = hash_(y), the hash being *)
(* taken over the current attribute values in the order of attrs.          *)
C3_EqualImpliesSameHash ==
    \A o, p \in Objs :
        (HasCmp(inst[o].cls) /\ HasCmp(inst[p].cls)
            /\ eq(inst[o], inst[p]) = "True") =>
                /\ hash_(inst[o]) = hash_(inst[p])
                /\ hash_(inst[o]) = TupleHash([i \in 1..Len(attrs) |-> ValueAt(o, i)])

(* Two distinct instances that became equal by re-assignment. *)
C3_Witness ==
    /\ cl.cmp /\ inst["y"].cls = "Type" /\ Len(attrs) = 2
    /\ ValueAt("x", 1) = 1 /\ ValueAt("x", 2) = 0
    /\ eq(inst["x"], inst["y"]) = "True"

(* The string TypeName(attr1=value1, attr2=value2, ...) over the first n   *)
(* attributes, built from the left.                                        *)
RECURSIVE Listing(_, _)
Listing(o, n) ==
    IF n = 0 THEN ""
    ELSE Listing(o, n - 1) \o (IF n = 1 THEN "" ELSE ", ")
         \o attrs[n] \o "=" \o ToString(ValueAt(o, n))

Described(o) == inst[o].cls \o "(" \o Listing(o, Len(attrs)) \o ")"

(* C7 as stated: the repr is exactly TypeName(attr1=value1, ...), with no  *)
(* other surrounding characters.                                           *)
C7_ReprIsBare ==
    \A o \in Objs : HasRepr(inst[o].cls) => repr_(inst[o]) = Described(o)

(* C7 amended: the repr is the string <TypeName(attr1=value1, ...)>, the   *)
(* attributes in the order of attrs, enclosed in one pair of angle         *)
(* brackets; for attrs = [a, b], a = 1, b = 0 on Type it is                *)
(* "<Type(a=1, b=0)>".                                                     *)
C7_ReprInAngleBrackets ==
    \A o \in Objs :
        HasRepr(inst[o].cls) =>
            /\ repr_(inst[o]) = "<" \o Described(o) \o ">"
            /\ (attrs = <<"a", "b">> /\ inst[o].cls = "Type"
                    /\ ValueAt(o, 1) = 1 /\ ValueAt(o, 2) = 0)
                   => repr_(inst[o]) = "<Type(a=1, b=0)>"

C7_Witness ==
    /\ cl.repr /\ attrs = <<"a", "b">>
    /\ ValueAt("x", 1) = 1 /\ ValueAt("x", 2) = 0
    /\ repr_(inst["x"]) = "<Type(a=1, b=0)>"

----------------------------------------------------------------------------
(* Properties of the generated constructor, checked under Spec *)

Required == {a \in Range(attrs) : a \notin DOMAIN defaults}

(* The value the caller's arguments and the defaults give attribute a. *)
HasResolved(a) == a \in DOMAIN call.kw \/ a \in DOMAIN defaults
Resolved(a) == IF a \in DOMAIN call.kw THEN call.kw[a] ELSE defaults[a]
ResolvedArgs == [i \in 1..Len(attrs) |-> Resolved(attrs[i])]

(* The last operation instantiated the class with keyword arguments that   *)
(* name attributes only and cover all the required ones.                   *)
CalledByName ==
    /\ last.op = "call"
    /\ DOMAIN call.kw \subseteq Range(attrs)
    /\ Required \subseteq DOMAIN call.kw

(* C4: with_init succeeds for every attribute list and defaults, and every *)
(* call that names at least all the required attributes yields an instance *)
(* whose attributes hold the supplied values, else the defaults.           *)
C4_ConstructsFromKeywords ==
    /\ last.op = "with_init" => last.err = NoErr
    /\ CalledByName =>
           /\ last.err = NoErr
           /\ \A a \in Range(attrs) :
                  a \in DOMAIN call.obj.d /\ call.obj.d[a] = Resolved(a)

(* C5: a call that omits an attribute without default, and names           *)
(* attributes only, fails with a missing-argument error that names an      *)
(* omitted attribute.                                                      *)
C5_MissingArgumentNamesAttribute ==
    (/\ last.op = "call"
     /\ DOMAIN call.kw \subseteq Range(attrs)
     /\ Required \ DOMAIN call.kw # {}) =>
        /\ last.err.type = "TypeError:missing argument"
        /\ last.err.name \in Required \ DOMAIN call.kw

(* C6: an instantiation of a class augmented once, with a user-written     *)
(* initializer, that returns an instance has assigned every attribute, in  *)
(* the order of attrs, and then run the user's initializer exactly once,   *)
(* on the resolved attribute values in the order of attrs; what the        *)
(* initializer set is on the instance.                                     *)
C6_AssignThenBaseOnce ==
    (/\ cl.init = "gen" /\ cl.original_init = "user"
     /\ last.op = "call" /\ last.err = NoErr) =>
        /\ \A a \in Range(attrs) : HasResolved(a)
        /\ call.trace =
               [i \in 1..Len(attrs) |-> AssignEvent(attrs[i], Resolved(attrs[i]))]
                   \o <<BaseEvent(ResolvedArgs)>>
        /\ call.obj.ran = 1
        /\ call.obj.derived = ResolvedArgs

(* C8: applying with_init again never captures a generated init as the     *)
(* base initializer, and no instantiation runs into the recursion limit.   *)
C8_NoDoubleWrap ==
    /\ cl.original_init # "gen"
    /\ last.op = "call" => last.err.type # "RecursionError"

(* C9: for every attribute with a default, a constructor is generated, and *)
(* an instantiation that omits the attribute returns an instance whose     *)
(* attribute is a fresh object, not the object stored in defaults.         *)
C9_FreshDefaultPerInstance ==
    \A d \in DOMAIN defaults :
        /\ last.op = "with_init" => last.err = NoErr
        /\ (last.op = "call" /\ d \notin DOMAIN call.kw) =>
               (last.err = NoErr /\ d \notin call.stored)

(* C10: attributes(attrs, defaults, create_init) always attaches the       *)
(* comparison methods and the repr; with create_init false it leaves       *)
(* __init__ alone and captures nothing, with create_init true it replaces  *)
(* __init__ by the generated init and captures the previous one.           *)
C10_CombinatorComposes ==
    [][\A ci \in BOOLEAN :
          Attributes(ci) =>
              /\ cl'.cmp /\ cl'.repr
              /\ ci => (cl'.init = "gen" /\ cl'.original_init = cl.init)
              /\ ~ci => (cl'.init = cl.init /\ cl'.original_init = cl.original_init)]_vars

====
